---- MODULE Spec2Model ----
(***************************************************************************)
(* A model of the yall parser (src/main.rs): the cursor (Parser), the leaf *)
(* scanners, the phrase dispatcher, the recursive expression parser and    *)
(* the program parser.  The recursion of parse_expression / parse_phrase   *)
(* is modelled with an explicit stack of activation frames; each action is *)
(* one step of the call chain.  A panic (assert_eq!, unreachable!) ends    *)
(* the run with result "panic"; Err(ParseError::OhShit) reaching the       *)
(* caller of parse_program ends it with result "err".                      *)
(***************************************************************************)
EXTENDS Integers, Sequences, FiniteSets, TLC

VARIABLES
  input,    \* the character sequence handed to the parser
  pos,      \* number of characters taken from the Peekable stream s
  col,      \* Parser.col
  row,      \* Parser.row
  pc,       \* where the call chain stands
  stack,    \* open parse_expression activations: [kind, values, open]
  program,  \* parse_program's local Vec<Expression>
  result,   \* "running" | "ok" | "err" | "panic"
  last,     \* history: the step just taken, [op, from, at]
  closed    \* history: one entry [kind, open, close] per closed expression

vars == <<input, pos, col, row, pc, stack, program, result, last, closed>>

-----------------------------------------------------------------------------
(* Characters *)

None == "None"

Openers == {"(", "[", "{"}

Whitespace == {" ", "\n", "\t"}

AsciiDigits == {"0", "1", "2", "3", "4", "5", "6", "7", "8", "9"}

AsciiLetters ==
  {"a", "b", "c", "d", "e", "f", "g", "h", "i", "j", "k", "l", "m",
   "n", "o", "p", "q", "r", "s", "t", "u", "v", "w", "x", "y", "z",
   "A", "B", "C", "D", "E", "F", "G", "H", "I", "J", "K", "L", "M",
   "N", "O", "P", "Q", "R", "S", "T", "U", "V", "W", "X", "Y", "Z"}

is_whitespace(ch) == ch \in Whitespace

is_ascii_digit(ch) == ch \in AsciiDigits

is_ascii_alphabetic(ch) == ch \in AsciiLetters

is_ascii_alphanumeric(ch) == is_ascii_alphabetic(ch) \/ is_ascii_digit(ch)

-----------------------------------------------------------------------------
(* The inputs explored *)

MaxLen == 3

MaxBody == 3

MaxNest == 4

MaxStr == 5

MaxNum == 4

SeqsUpTo(S, n) == UNION {[1..k -> S] : k \in 0..n}

GeneralChars ==
  {"(", ")", "[", "]", "{", "}", "\"", ";", "\n", " ", "1", "a"}

BodyChars == {"\"", "\\", "a", "1", ".", "_", " ", ")"}

NestChars == {"(", ")", "[", "]", ";", "\n", "a"}

StrChars == {"\"", "\\", "a"}

NumChars == {"1", ".", "a", ")"}

ItemAB == <<"(", "a", " ", "b", ")">>

List12 == <<"[", "1", " ", "2", "]">>

BlockX == <<"{", "x", "}">>

MismatchedItem == <<"(", "a", "]">>

UnclosedItem == <<"(", "a">>

EscapedText == <<"(", "\"", "a", "\\", "\"", "b", "\"", ")">>

CommentThenFoo == <<";", " ", "h", "e", "l", "l", "o", "\n", "f", "o", "o">>

TwoPoints == <<"(", "1", ".", "2", ".", "3", ")">>

Examples ==
  {ItemAB, List12, BlockX, MismatchedItem, UnclosedItem, EscapedText,
   CommentThenFoo, TwoPoints,
   <<"[", "(", "a", ")", "]">>,
   <<"{", "[", "(", ")", "]", "}">>,
   <<"(", "a", " ", "#", "b", ")">>,
   <<";", "c", "\n", "(", "x", "_", "1", " ", "\"", "s", "\"", ";", "d", "\n",
     "[", "]", ")">>}

Inputs ==
  SeqsUpTo(GeneralChars, MaxLen)
    \cup {<<"(">> \o s : s \in SeqsUpTo(BodyChars, MaxBody)}
    \cup SeqsUpTo(NestChars, MaxNest)
    \cup {<<"(", "\"">> \o s : s \in SeqsUpTo(StrChars, MaxStr)}
    \cup {<<"(", "1">> \o s : s \in SeqsUpTo(NumChars, MaxNum)}
    \cup Examples

-----------------------------------------------------------------------------
(* Data model *)

Expression(kind, values) == [kind |-> kind, values |-> values]

Expression_null(value) == Expression("Null", <<value>>)

PhraseExpression(e) == [variant |-> "Expression", expr |-> e]

Identifier(text) == [variant |-> "Identifier", text |-> text]

Text(text) == [variant |-> "Text", text |-> text]

Number(text) == [variant |-> "Number", text |-> text]

Comment(text) == [variant |-> "Comment", text |-> text]

-----------------------------------------------------------------------------
(* Cursor: a record [pos, col] over the fixed input *)

peek(c) == IF c.pos < Len(input) THEN input[c.pos + 1] ELSE None

\* Parser::next: col is incremented on every call, then the stream is asked
next(c) ==
  [pos |-> IF c.pos < Len(input) THEN c.pos + 1 ELSE c.pos, col |-> c.col + 1]

\* the inner Peekable's own next(), used by peek_while through s.s
stream_next(c) ==
  [pos |-> IF c.pos < Len(input) THEN c.pos + 1 ELSE c.pos, col |-> c.col]

RECURSIVE parse_whitespace(_)
parse_whitespace(c) ==
  IF peek(c) # None /\ is_whitespace(peek(c))
  THEN parse_whitespace(next(c))
  ELSE c

-----------------------------------------------------------------------------
(* Leaf scanners.  Each returns [ok, phrase, cur]; ok = FALSE is a failed   *)
(* assert_eq! (a panic).                                                    *)

\* faulty variant: a backslash does not protect the next character
string_pred_no_escape(ch, is_next_escaped) ==
  [keep |-> ch # "\"", esc |-> FALSE]

\* the closure handed to take_while in parse_string: [keep, esc]
string_pred(ch, is_next_escaped) ==
  IF is_next_escaped THEN [keep |-> TRUE, esc |-> FALSE]
  ELSE IF ch = "\\" THEN [keep |-> TRUE, esc |-> TRUE]
  ELSE [keep |-> ch # "\"", esc |-> FALSE]

\* Iterator::take_while over the Parser, collected: every element is taken
\* with Parser::next, the first rejected element is taken and dropped
RECURSIVE take_while_string(_, _, _)
take_while_string(c, is_next_escaped, acc) ==
  LET ch == peek(c)
      c1 == next(c)
  IN  IF ch = None THEN [text |-> acc, cur |-> c1]
      ELSE LET r == string_pred(ch, is_next_escaped)
           IN  IF r.keep
               THEN take_while_string(c1, r.esc, Append(acc, ch))
               ELSE [text |-> acc, cur |-> c1]

parse_string(c) ==
  LET quote == peek(c)
      c1 == next(c)
  IN  IF quote # "\""
      THEN [ok |-> FALSE, cur |-> c1]
      ELSE LET r == take_while_string(c1, FALSE, <<>>)
           IN  [ok |-> TRUE, phrase |-> Text(r.text), cur |-> r.cur]

\* faulty variant: a line break does not end the comment
comment_pred_unterminated(ch) == TRUE

comment_pred(ch) == ch # "\n"

RECURSIVE take_while_comment(_, _)
take_while_comment(c, acc) ==
  LET ch == peek(c)
      c1 == next(c)
  IN  IF ch = None THEN [text |-> acc, cur |-> c1]
      ELSE IF comment_pred(ch)
           THEN take_while_comment(c1, Append(acc, ch))
           ELSE [text |-> acc, cur |-> c1]

\* faulty variant: the comment is recognised by peeking, nothing is consumed
parse_comment_peeked(c) ==
  IF peek(c) # ";"
  THEN [ok |-> FALSE, cur |-> c]
  ELSE [ok |-> TRUE, phrase |-> Comment(<<>>), cur |-> c]

parse_comment(c) ==
  LET semi == peek(c)
      c1 == next(c)
  IN  IF semi # ";"
      THEN [ok |-> FALSE, cur |-> c1]
      ELSE LET r == take_while_comment(c1, <<>>)
           IN  [ok |-> TRUE, phrase |-> Comment(r.text), cur |-> r.cur]

\* faulty variant: every '.' is accepted, contains_point is never set
number_pred_any_point(ch, contains_point) ==
  [keep |-> ch = "." \/ is_ascii_digit(ch), st |-> contains_point]

\* the closure handed to peek_while in parse_number: [keep, st], st being
\* contains_point
number_pred(ch, contains_point) ==
  IF ~contains_point /\ ch = "."
  THEN [keep |-> TRUE, st |-> TRUE]
  ELSE [keep |-> is_ascii_digit(ch), st |-> contains_point]

\* the closure handed to peek_while in parse_identifier (stateless)
identifier_pred(ch, st) ==
  [keep |-> is_ascii_alphanumeric(ch) \/ ch = "_", st |-> st]

scanner_pred(which, ch, st) ==
  IF which = "number" THEN number_pred(ch, st) ELSE identifier_pred(ch, st)

\* peek_while (module peek_while), collected: while the stream's next
\* character is accepted by the predicate it is taken from the stream; the
\* first rejected character stays in the stream.  It works on the inner
\* Peekable (s.s), not on the Parser.
RECURSIVE peek_while(_, _, _, _)
peek_while(c, which, st, acc) ==
  LET ch == peek(c)
  IN  IF ch = None THEN [text |-> acc, cur |-> c]
      ELSE LET r == scanner_pred(which, ch, st)
           IN  IF r.keep
               THEN peek_while(stream_next(c), which, r.st, Append(acc, ch))
               ELSE [text |-> acc, cur |-> c]

parse_number(c) ==
  LET r == peek_while(c, "number", FALSE, <<>>)
  IN  [ok |-> TRUE, phrase |-> Number(r.text), cur |-> r.cur]

parse_identifier(c) ==
  LET r == peek_while(c, "identifier", FALSE, <<>>)
  IN  [ok |-> TRUE, phrase |-> Identifier(r.text), cur |-> r.cur]

-----------------------------------------------------------------------------
(* The call chain *)

Cursor == [pos |-> pos, col |-> col]

KindOf(ch) ==
  CASE ch = "[" -> "List"
    [] ch = "{" -> "Block"
    [] ch = "(" -> "Item"

Closer(kind) ==
  CASE kind = "Block" -> "}"
    [] kind = "List" -> "]"
    [] kind = "Item" -> ")"

\* faulty variant: any closing delimiter is taken for the required one
closes_any(ch, kind) == ch \in {")", "]", "}"}

\* assert_eq!(s.next(), Some(closer)) of the closing match
closes(ch, kind) == ch = Closer(kind)

Frame(kind, open) == [kind |-> kind, values |-> <<>>, open |-> open]

\* faulty variant: the phrase is put before the children collected so far
PushValue_front(stk, phrase) ==
  [stk EXCEPT ![Len(stk)].values = <<phrase>> \o @]

\* values.push(phrase) in the innermost open parse_expression
PushValue(stk, phrase) ==
  [stk EXCEPT ![Len(stk)].values = Append(@, phrase)]

\* parse_expression returns Ok(e) to its caller: parse_program (no open
\* activation left) pushes it on the program, parse_phrase wraps it as
\* Phrase::Expression and the collecting loop pushes that
ReturnOk(e, stk) ==
  IF stk = <<>>
  THEN [pc |-> "parse_program", stack |-> stk, program |-> Append(program, e)]
  ELSE [pc |-> "parse_phrase", stack |-> PushValue(stk, PhraseExpression(e)),
        program |-> program]

Init ==
  /\ input \in Inputs
  /\ pos = 0
  /\ col = 0
  /\ row = 0
  /\ pc = "parse_program"
  /\ stack = <<>>
  /\ program = <<>>
  /\ result = "running"
  /\ last = [op |-> "new", from |-> 0, at |-> 0]
  /\ closed = <<>>

Halt(res, op, c0, c1, c2) ==
  /\ pc' = "halt"
  /\ result' = res
  /\ pos' = c2.pos
  /\ col' = c2.col
  /\ last' = [op |-> op, from |-> c0.pos, at |-> c1.pos]
  /\ UNCHANGED <<input, row, stack, program, closed>>

\* parse_program: the whitespace skip before the loop test (line 199 on
\* entry, line 203 after each expression), then the loop test
parse_program ==
  /\ pc = "parse_program"
  /\ LET c1 == parse_whitespace(Cursor)
     IN  IF peek(c1) # None
         THEN /\ pc' = "parse_expression"
              /\ pos' = c1.pos
              /\ col' = c1.col
              /\ last' = [op |-> "call", from |-> pos, at |-> c1.pos]
              /\ UNCHANGED <<input, row, stack, program, result, closed>>
         ELSE Halt("ok", "return", Cursor, c1, c1)

\* parse_expression, up to the start of the collecting loop
parse_expression ==
  /\ pc = "parse_expression"
  /\ LET c1 == parse_whitespace(Cursor)
         ch == peek(c1)
     IN  IF ch = ";"
         THEN LET r == parse_comment(c1)
                  ret == ReturnOk(Expression_null(r.phrase), stack)
              IN  IF ~r.ok THEN Halt("panic", "assert", Cursor, c1, r.cur)
                  ELSE /\ pc' = ret.pc
                       /\ stack' = ret.stack
                       /\ program' = ret.program
                       /\ pos' = r.cur.pos
                       /\ col' = r.cur.col
                       /\ last' = [op |-> "null", from |-> pos, at |-> c1.pos]
                       /\ UNCHANGED <<input, row, result, closed>>
         ELSE LET c2 == next(c1)
              IN  IF ch = None
                  THEN \* Err(OhShit): `?` in parse_program, or the end of
                       \* the children for a collecting caller
                       IF stack = <<>>
                       THEN Halt("err", "eof", Cursor, c1, c2)
                       ELSE /\ pc' = "close"
                            /\ pos' = c2.pos
                            /\ col' = c2.col
                            /\ last' = [op |-> "eof", from |-> pos, at |-> c1.pos]
                            /\ UNCHANGED <<input, row, stack, program, result, closed>>
                  ELSE IF ch \in Openers
                  THEN /\ pc' = "parse_phrase"
                       /\ stack' = Append(stack, Frame(KindOf(ch), c2.pos))
                       /\ pos' = c2.pos
                       /\ col' = c2.col
                       /\ last' = [op |-> "open", from |-> pos, at |-> c1.pos]
                       /\ UNCHANGED <<input, row, program, result, closed>>
                  ELSE Halt("panic", "unexpected", Cursor, c1, c2)

\* faulty variant: ';' is routed to parse_expression like an opener
dispatch_comment_as_expression(ch) ==
  IF ch = None THEN "error"
  ELSE IF ch \in {"(", "[", "{", ";"} THEN "expression"
  ELSE IF ch = "\"" THEN "string"
  ELSE IF is_ascii_digit(ch) THEN "number"
  ELSE IF is_ascii_alphabetic(ch) THEN "identifier"
  ELSE "error"

\* the match of parse_phrase on the peeked character
dispatch(ch) ==
  IF ch = None THEN "error"
  ELSE IF ch \in {"(", "[", "{"} THEN "expression"
  ELSE IF ch = "\"" THEN "string"
  ELSE IF ch = ";" THEN "comment"
  ELSE IF is_ascii_digit(ch) THEN "number"
  ELSE IF is_ascii_alphabetic(ch) THEN "identifier"
  ELSE "error"

\* faulty variant: the Err of parse_phrase is propagated (`?`)
while_let_err_propagated == [pc |-> "halt", result |-> "err"]

\* `while let Ok(phrase) = parse_phrase(s)`: what an Err does to the loop
while_let_err == [pc |-> "close", result |-> "running"]

\* one turn of the collecting loop: parse_phrase and values.push
parse_phrase ==
  /\ pc = "parse_phrase"
  /\ LET c1 == parse_whitespace(Cursor)
         route == dispatch(peek(c1))
     IN  IF route = "expression"
         THEN /\ pc' = "parse_expression"
              /\ pos' = c1.pos
              /\ col' = c1.col
              /\ last' = [op |-> "nested", from |-> pos, at |-> c1.pos]
              /\ UNCHANGED <<input, row, stack, program, result, closed>>
         ELSE IF route # "error"
         THEN LET r == CASE route = "string" -> parse_string(c1)
                         [] route = "comment" -> parse_comment(c1)
                         [] route = "number" -> parse_number(c1)
                         [] route = "identifier" -> parse_identifier(c1)
              IN  IF ~r.ok THEN Halt("panic", "assert", Cursor, c1, r.cur)
                  ELSE /\ pc' = "parse_phrase"
                       /\ stack' = PushValue(stack, r.phrase)
                       /\ pos' = r.cur.pos
                       /\ col' = r.cur.col
                       /\ last' = [op |-> "leaf", from |-> pos, at |-> c1.pos]
                       /\ UNCHANGED <<input, row, program, result, closed>>
         ELSE /\ pc' = while_let_err.pc
              /\ result' = while_let_err.result
              /\ pos' = c1.pos
              /\ col' = c1.col
              /\ last' = [op |-> "fail", from |-> pos, at |-> c1.pos]
              /\ UNCHANGED <<input, row, stack, program, closed>>

\* the closing match of parse_expression and its return
close_expression ==
  /\ pc = "close"
  /\ LET top == stack[Len(stack)]
         ch == peek(Cursor)
         c1 == next(Cursor)
         ret == ReturnOk(Expression(top.kind, top.values),
                         SubSeq(stack, 1, Len(stack) - 1))
     IN  IF ~closes(ch, top.kind)
         THEN Halt("panic", "mismatch", Cursor, Cursor, c1)
         ELSE /\ pc' = ret.pc
              /\ stack' = ret.stack
              /\ program' = ret.program
              /\ pos' = c1.pos
              /\ col' = c1.col
              /\ closed' = Append(closed, [kind |-> top.kind, open |-> top.open,
                                           close |-> c1.pos])
              /\ last' = [op |-> "close", from |-> pos, at |-> pos]
              /\ UNCHANGED <<input, row, result>>

Next == parse_program \/ parse_expression \/ parse_phrase \/ close_expression

Spec == Init /\ [][Next]_vars

-----------------------------------------------------------------------------
(* Helpers of the properties *)

Halted == pc = "halt"

Top == stack[Len(stack)]

LastValue == Top.values[Len(Top.values)]

RECURSIVE SumSeq(_)
SumSeq(ns) == IF ns = <<>> THEN 0 ELSE Head(ns) + SumSeq(Tail(ns))

\* the number of List, Block and Item nodes of an expression, at any depth
RECURSIVE Groups(_)
Groups(e) ==
  (IF e.kind = "Null" THEN 0 ELSE 1)
    + SumSeq([i \in DOMAIN e.values |->
               IF e.values[i].variant = "Expression"
               THEN Groups(e.values[i].expr) ELSE 0])

GroupsOfProgram == SumSeq([i \in DOMAIN program |-> Groups(program[i])])

\* kind, opening and closing character as the delimiter table gives them
Delimited(kind, o, c) ==
  \/ kind = "List" /\ o = "[" /\ c = "]"
  \/ kind = "Block" /\ o = "{" /\ c = "}"
  \/ kind = "Item" /\ o = "(" /\ c = ")"

-----------------------------------------------------------------------------
(* Properties *)

\* C1: a returned program holds only groups that were opened by '[', '{' or
\* '(' and closed by exactly the matching ']', '}' or ')': every group of
\* the returned tree is one closed expression, each closed expression sits
\* between its own opener and its required closer, two of them are nested
\* or apart, and `(a]` and `(a` never yield a program.
C1_ReturnedTreeIsClosed ==
  /\ result = "ok" =>
       /\ GroupsOfProgram = Len(closed)
       /\ \A i \in DOMAIN closed :
            /\ closed[i].open < closed[i].close
            /\ Delimited(closed[i].kind, input[closed[i].open],
                         input[closed[i].close])
       /\ \A i, j \in DOMAIN closed :
            \/ i = j
            \/ closed[i].close < closed[j].open
            \/ closed[j].close < closed[i].open
            \/ closed[i].open < closed[j].open /\ closed[j].close < closed[i].close
            \/ closed[j].open < closed[i].open /\ closed[i].close < closed[j].close
  /\ input \in {MismatchedItem, UnclosedItem} => result \notin {"ok", "err"}
  /\ input \in {MismatchedItem, UnclosedItem} /\ Halted => result = "panic"

C1_Witness ==
  /\ result = "ok"
  /\ \E i, j \in DOMAIN closed :
       /\ closed[j].open < closed[i].open
       /\ closed[i].close < closed[j].close
       /\ closed[i].kind # closed[j].kind

\* the variant the dispatcher's table gives a leaf by its first character
VariantFor(ch) ==
  IF ch = "\"" THEN "Text"
  ELSE IF ch = ";" THEN "Comment"
  ELSE IF ch \in AsciiDigits THEN "Number"
  ELSE IF ch \in AsciiLetters THEN "Identifier"
  ELSE "none"

\* an opening delimiter starts a group of its kind with no children yet
C2_Opens ==
  (pc = "parse_expression" /\ last'.op = "open") =>
    /\ Len(stack') = Len(stack) + 1
    /\ SubSeq(stack', 1, Len(stack)) = stack
    /\ stack'[Len(stack')].values = <<>>
    /\ \E c \in {")", "]", "}"} :
         Delimited(stack'[Len(stack')].kind, input[pos'], c)

\* a leaf is appended after the children collected so far, with the variant
\* of its first character; nothing else of the tree changes
C2_Collects ==
  (pc = "parse_phrase" /\ last'.op = "leaf") =>
    /\ Len(stack') = Len(stack)
    /\ SubSeq(stack', 1, Len(stack) - 1) = SubSeq(stack, 1, Len(stack) - 1)
    /\ stack'[Len(stack')].kind = Top.kind
    /\ Len(stack'[Len(stack')].values) = Len(Top.values) + 1
    /\ SubSeq(stack'[Len(stack')].values, 1, Len(Top.values)) = Top.values
    /\ stack'[Len(stack')].values[Len(Top.values) + 1].variant
         = VariantFor(input[last'.at + 1])
    /\ program' = program

\* a closed group is handed over with its kind and its children as
\* collected: appended to the enclosing group as an Expression phrase, or
\* to the program
C2_Returns ==
  (pc = "close" /\ last'.op = "close") =>
    LET e == [kind |-> Top.kind, values |-> Top.values]
    IN  IF Len(stack) = 1
        THEN stack' = <<>> /\ program' = Append(program, e)
        ELSE /\ program' = program
             /\ Len(stack') = Len(stack) - 1
             /\ SubSeq(stack', 1, Len(stack) - 2) = SubSeq(stack, 1, Len(stack) - 2)
             /\ stack'[Len(stack')].kind = stack[Len(stack) - 1].kind
             /\ stack'[Len(stack')].values
                  = Append(stack[Len(stack) - 1].values,
                           [variant |-> "Expression", expr |-> e])

C2_Examples ==
  result = "ok" =>
    /\ input = ItemAB =>
         program = <<[kind |-> "Item",
                      values |-> <<[variant |-> "Identifier", text |-> <<"a">>],
                                   [variant |-> "Identifier", text |-> <<"b">>]>>]>>
    /\ input = List12 =>
         program = <<[kind |-> "List",
                      values |-> <<[variant |-> "Number", text |-> <<"1">>],
                                   [variant |-> "Number", text |-> <<"2">>]>>]>>
    /\ input = BlockX =>
         program = <<[kind |-> "Block",
                      values |-> <<[variant |-> "Identifier", text |-> <<"x">>]>>]>>

\* C2: the kind of a group is fixed by its opening delimiter and its children
\* are the phrases between the delimiters, in source order, each with the
\* variant of its first character; `(a b)`, `[1 2]` and `{x}` parse to
\* Item[Identifier a, Identifier b], List[Number 1, Number 2] and
\* Block[Identifier x].
C2_GroupShape ==
  /\ []C2_Examples
  /\ [][C2_Opens /\ C2_Collects /\ C2_Returns]_vars

C2_Witness ==
  /\ result = "ok"
  /\ input = ItemAB
  /\ Len(program) = 1
  /\ Len(program[1].values) = 2

HelloComment ==
  [kind |-> "Null",
   values |-> <<[variant |-> "Comment", text |-> <<" ", "h", "e", "l", "l", "o">>]>>]

C4_TopLevelFailureIsParseError ==
  (Halted /\ stack = <<>> /\ last.op \in {"unexpected", "eof"}) => result = "err"

\* the positions after the opening quote at s that are escaped: the
\* character before is a backslash that is not itself escaped
RECURSIVE Escaped(_, _)
Escaped(s, i) ==
  /\ i > s + 1
  /\ input[i - 1] = "\\"
  /\ ~Escaped(s, i - 1)

Terminators(s) ==
  {i \in (s + 1)..Len(input) : input[i] = "\"" /\ ~Escaped(s, i)}

Min(S) == CHOOSE m \in S : \A n \in S : m <= n

\* C5: a Text scanned from the quote at s holds the characters after the
\* quote up to the first quote that is not escaped, backslashes and escaped
\* characters kept; that quote is consumed; without one the Text runs to
\* the end of the input, and the scan is no error.  `"a\"b"` gives the four
\* characters a, backslash, quote, b.
C5_TextIsRawUpToUnescapedQuote ==
  /\ (last.op = "leaf" /\ input[last.at + 1] = "\"") =>
       LET s == last.at + 1
           T == Terminators(s)
       IN  /\ result = "running"
           /\ LastValue.variant = "Text"
           /\ IF T = {}
              THEN /\ LastValue.text = SubSeq(input, s + 1, Len(input))
                   /\ pos = Len(input)
              ELSE /\ LastValue.text = SubSeq(input, s + 1, Min(T) - 1)
                   /\ pos = Min(T)
  /\ (input = EscapedText /\ result = "ok") =>
       program = <<[kind |-> "Item",
                    values |-> <<[variant |-> "Text",
                                  text |-> <<"a", "\\", "\"", "b">>]>>]>>

C5_Witness ==
  /\ last.op = "leaf"
  /\ input[last.at + 1] = "\""
  /\ \E i \in DOMAIN LastValue.text :
       i > 1 /\ LastValue.text[i] = "\"" /\ LastValue.text[i - 1] = "\\"
  /\ input[pos] = "\""
  /\ pos < Len(input)

Points(text) == Cardinality({i \in DOMAIN text : text[i] = "."})

\* a Number just scanned is the maximal run of digits and one '.'
C6_MaximalRun ==
  (last.op = "leaf" /\ input[last.at + 1] \in AsciiDigits) =>
    LET text == LastValue.text
    IN  /\ LastValue.variant = "Number"
        /\ text = SubSeq(input, last.at + 1, pos)
        /\ text # <<>>
        /\ text[1] \in AsciiDigits
        /\ \A i \in DOMAIN text : text[i] \in AsciiDigits \cup {"."}
        /\ Points(text) <= 1
        /\ pos < Len(input) =>
             /\ input[pos + 1] \notin AsciiDigits
             /\ input[pos + 1] = "." => Points(text) = 1

\* a second '.' is left for the next phrase attempt, which fails on it
C6_SecondPointFails ==
  (last.op = "leaf" /\ input[last.at + 1] \in AsciiDigits
     /\ pos < Len(input) /\ input[pos + 1] = "." /\ pc = "parse_phrase") =>
    /\ last'.op = "fail"
    /\ pos' = pos
    /\ stack' = stack

C6_Example ==
  (input = TwoPoints /\ last.op = "fail") =>
    /\ Top.values = <<[variant |-> "Number", text |-> <<"1", ".", "2">>]>>
    /\ SubSeq(input, pos + 1, pos + 2) = <<".", "3">>

\* C6: the Number scanner returns the maximal run of ASCII digits and the
\* first '.' of the run: the text starts with a digit and holds at most one
\* '.'; a second '.' is not consumed and makes the next dispatch fail.
\* `1.2.3` scans as Number `1.2` with `.3` left.
C6_NumberBoundary ==
  /\ []C6_MaximalRun
  /\ []C6_Example
  /\ [][C6_SecondPointFails]_vars

C6_Witness ==
  /\ last.op = "fail"
  /\ Top.values # <<>>
  /\ LastValue.variant = "Number"
  /\ Points(LastValue.text) = 1
  /\ pos < Len(input)
  /\ input[pos + 1] = "."

\* no Null expression below this one
RECURSIVE NoNullInside(_)
NoNullInside(e) ==
  \A i \in DOMAIN e.values :
    e.values[i].variant = "Expression" =>
      /\ e.values[i].expr.kind # "Null"
      /\ NoNullInside(e.values[i].expr)

RECURSIVE HasComment(_)
HasComment(e) ==
  \E i \in DOMAIN e.values :
    \/ e.values[i].variant = "Comment"
    \/ e.values[i].variant = "Expression" /\ HasComment(e.values[i].expr)

\* C7: a Null expression has exactly one child, a Comment, and stands only
\* at the top level of the program; a comment among the children of a
\* group is a bare Comment phrase.
C7_NullOnlyWrapsTopLevelComment ==
  /\ \A i \in DOMAIN program :
       /\ program[i].kind = "Null" =>
            /\ Len(program[i].values) = 1
            /\ program[i].values[1].variant = "Comment"
       /\ NoNullInside(program[i])
  /\ \A i \in DOMAIN stack :
       /\ stack[i].kind # "Null"
       /\ NoNullInside(stack[i])

C7_Witness ==
  /\ result = "ok"
  /\ \E i, j \in DOMAIN program :
       /\ program[i].kind = "Null"
       /\ program[j].kind # "Null"
       /\ HasComment(program[j])

\* a dispatch failure ends the collection and nothing else: no error, the
\* children as they are, only whitespace consumed, the parse now at the
\* closing match in front of the character that could not start a phrase
C8_FailStopsCollection ==
  (pc = "parse_phrase" /\ last'.op = "fail") =>
    /\ result' = "running"
    /\ pc' = "close"
    /\ stack' = stack
    /\ program' = program
    /\ col' - col = pos' - pos
    /\ \A i \in (pos + 1)..pos' : input[i] \in Whitespace
    /\ pos' < Len(input) =>
         /\ input[pos' + 1] \notin Whitespace \cup Openers
         /\ VariantFor(input[pos' + 1]) = "none"

\* the next character consumed decides: the matching closer returns the
\* expression with the children collected, anything else (or no character)
\* is the fatal assertion
C8_CloserDecides ==
  (pc = "close" /\ last.op = "fail") =>
    IF pos < Len(input) /\ \E o \in Openers : Delimited(Top.kind, o, input[pos + 1])
    THEN /\ last'.op = "close"
         /\ result' = "running"
         /\ pos' = pos + 1
         /\ Len(closed') = Len(closed) + 1
         /\ IF Len(stack) = 1
            THEN program' = Append(program, [kind |-> Top.kind, values |-> Top.values])
            ELSE stack'[Len(stack')].values[Len(stack'[Len(stack')].values)]
                   = [variant |-> "Expression",
                      expr |-> [kind |-> Top.kind, values |-> Top.values]]
    ELSE /\ last'.op = "mismatch"
         /\ result' = "panic"
         /\ pc' = "halt"
         /\ program' = program
         /\ closed' = closed

\* C8: a dispatch failure while collecting children is not returned as an
\* error: the collection stops with the children parsed so far, only
\* leading whitespace is consumed, and the next character consumed is
\* checked against the required closer, so the expression is returned iff
\* it is the matching closer and the parse ends in the fatal assertion
\* otherwise.
C8_DispatchFailureEndsChildren ==
  [][C8_FailStopsCollection /\ C8_CloserDecides]_vars

C8_Witness ==
  /\ last.op = "mismatch"
  /\ result = "panic"
  /\ Len(Top.values) >= 1
  /\ input[pos] = "#"
  /\ pos < Len(input)

\* a step that hands back a phrase or an expression, or opens a group,
\* consumes at least one character
C9_Progress ==
  (pc \in {"parse_expression", "parse_phrase", "close"}
     /\ last'.op \in {"leaf", "null", "open", "close"}) => pos' > pos

\* what is left to do: the characters not yet consumed, and within one
\* position the calls and returns still possible without consuming
Rank ==
  CASE pc = "parse_program" -> 3
    [] pc = "parse_phrase" -> 3
    [] pc = "parse_expression" -> 2
    [] pc = "close" -> 1
    [] pc = "halt" -> 0

Measure == 4 * (Len(input) - pos) + Rank

\* C9: every parse stops, returning or in a fatal condition: every
\* successful phrase dispatch and every successful top-level
\* parse_expression consumes at least one character, so every step of the
\* two loops lowers a natural-number measure of the input left, and the
\* parse can always take a step until it has stopped.
C9_ParseStops ==
  /\ [](Measure \in Nat)
  /\ [](Halted \/ ENABLED Next)
  /\ [](Halted <=> result # "running")
  /\ [][Measure' < Measure /\ C9_Progress]_vars

C9_Witness ==
  /\ Halted
  /\ result = "ok"
  /\ Len(program) >= 2
  /\ \E i \in DOMAIN program : Len(program[i].values) >= 3

\* C10: the column counter equals the number of characters consumed.
C10_ColumnCountsConsumed == col = pos

====
